---- MODULE Spec2Model ----
(***************************************************************************)
(* Structural Change (StructuralChange.hpp): the engine's constructor,     *)
(* StructuralChange::calculate with its cumulative pass, window boundary   *)
(* table, divergence pass and substitution pass, and the Jensen-Shannon    *)
(* policy's validity loop.                                                 *)
(*                                                                         *)
(* Number representation.                                                  *)
(*  - size_t / unsigned values are 64-bit words, written as four 16-bit    *)
(*    limbs, least significant first, so that 2^31, 2^32 and 2^64-1 are    *)
(*    representable and unsigned wrap-around is computed, not assumed.     *)
(*  - int values are plain integers in [-2^31, 2^31).                      *)
(*  - float values are exact rationals <<numerator, denominator>> in       *)
(*    lowest terms with a positive denominator; <<0, 0>> is NaN.  Float    *)
(*    rounding is not modelled.                                            *)
(***************************************************************************)
EXTENDS Integers, Sequences, FiniteSets, TLC

(* ------------------------------ bounds --------------------------------- *)
\* longest input sequence, in frames
MaxFrames == 4
\* largest timescale count given to the constructor in calculate runs
MaxNumDim == 2
\* largest feature dimensionality of an input frame
MaxElement == 2
\* largest timescale count in runs of init_window_boundaries alone
MaxShiftDim == 33
\* longest vector handed to the Jensen-Shannon policy
MaxJSLen == 3

(* ----------------------- 64-bit unsigned words ------------------------- *)
Limb == 65536

ToWord(n) ==
  IF n >= 0
  THEN << n % Limb, (n \div Limb) % Limb, 0, 0 >>
  ELSE LET m == -(n + 1)
       IN  << (Limb - 1) - (m % Limb), (Limb - 1) - ((m \div Limb) % Limb),
              Limb - 1, Limb - 1 >>

WordAdd(x, y) ==
  LET t1 == x[1] + y[1]
      t2 == x[2] + y[2] + (t1 \div Limb)
      t3 == x[3] + y[3] + (t2 \div Limb)
      t4 == x[4] + y[4] + (t3 \div Limb)
  IN  << t1 % Limb, t2 % Limb, t3 % Limb, t4 % Limb >>

WordSub(x, y) ==
  WordAdd(x, WordAdd(<< (Limb - 1) - y[1], (Limb - 1) - y[2],
                        (Limb - 1) - y[3], (Limb - 1) - y[4] >>, ToWord(1)))

WordLess(x, y) ==
  \/ x[4] < y[4]
  \/ x[4] = y[4] /\ x[3] < y[3]
  \/ x[4] = y[4] /\ x[3] = y[3] /\ x[2] < y[2]
  \/ x[4] = y[4] /\ x[3] = y[3] /\ x[2] = y[2] /\ x[1] < y[1]

\* size_t -> int: the low 32 bits, read as two's complement
ToInt(x) ==
  IF x[2] < 32768 THEN x[2] * Limb + x[1] ELSE (x[2] - Limb) * Limb + x[1]

\* 1U << t as unsigned int, zero-extended to size_t (t < 32)
Pow2Word(t) ==
  IF t < 16 THEN << 2 ^ t, 0, 0, 0 >> ELSE << 0, 2 ^ (t - 16), 0, 0 >>

\* 1U << i_timescale.  A shift count of 32 or more is undefined: the count
\* is either masked to five bits or the bit is shifted out.
ShiftLeft1U(t) ==
  IF t < 32 THEN { Pow2Word(t) } ELSE { Pow2Word(t % 32), ToWord(0) }

\* 2 * x in int, for an x whose double does not fit: wrapped modulo 2^32
WrapTwice(x) ==
  IF x >= 0 THEN (x - 1073741824) * 2 + (-2147483647 - 1)
            ELSE ((x + 1073741824) + 1073741824) * 2

\* the outcomes of 2*static_cast<int>(window_width) == (rr - ll).  Signed
\* overflow is undefined: the product wraps, or the comparison is decided
\* as if it could not overflow (no int equals the exact product).
NormalTest(window_width, ll, rr) ==
  LET x == ToInt(window_width)
  IN  IF x >= -1073741824 /\ x < 1073741824
      THEN { 2 * x = rr - ll }
      ELSE { WrapTwice(x) = rr - ll, FALSE }

(* ------------------------------ floats --------------------------------- *)
Abs(n) == IF n < 0 THEN -n ELSE n

RECURSIVE Gcd(_, _)
Gcd(a, b) == IF b = 0 THEN a ELSE Gcd(b, a % b)

NaN == << 0, 0 >>

Norm(n, d) ==
  IF d = 0 THEN NaN
  ELSE LET g == Gcd(Abs(n), Abs(d))
           s == IF d < 0 THEN -1 ELSE 1
       IN  << (s * n) \div g, (s * d) \div g >>

Flt(n) == << n, 1 >>
FltAdd(a, b) == Norm(a[1] * b[2] + b[1] * a[2], a[2] * b[2])
FltSub(a, b) == Norm(a[1] * b[2] - b[1] * a[2], a[2] * b[2])
FltMul(a, b) == Norm(a[1] * b[1], a[2] * b[2])
\* float / int; the only zero divisor the code meets divides a zero sum
FltDivInt(a, k) == Norm(a[1], a[2] * k)
\* operator== on floats: NaN equals nothing
FltEq(a, b) == a # NaN /\ b # NaN /\ a = b

\* sqrt of a float that is the square of a rational
ISqrt(n) == CHOOSE r \in 0..n : r * r = n
FltSqrt(a) == IF a = NaN THEN NaN ELSE << ISqrt(a[1]), ISqrt(a[2]) >>


(* ------------------------ divergence policies -------------------------- *)
RECURSIVE SquaredDistance(_, _, _)
SquaredDistance(a, b, k) ==
  IF k = 0 THEN Flt(0)
  ELSE FltAdd(SquaredDistance(a, b, k - 1),
              FltMul(FltSub(a[k], b[k]), FltSub(a[k], b[k])))

EuclideanDivergencePolicy(a, b) == FltSqrt(SquaredDistance(a, b, Len(a)))

\* policies a caller supplies: the signed difference of the first elements,
\* and policies returning one fixed value
UserValues == { -1, 2 }
UserPolicies ==
  { [kind |-> "Difference", value |-> 0] } \cup
  { [kind |-> "Constant", value |-> c] : c \in UserValues }

Policies == { [kind |-> "Euclidean", value |-> 0] } \cup UserPolicies

\* divergence(mean_L, mean_R)
Divergence(policy, a, b) ==
  IF policy.kind = "Euclidean" THEN EuclideanDivergencePolicy(a, b)
  ELSE IF policy.kind = "Difference" THEN FltSub(a[1], b[1])
  ELSE Flt(policy.value)

(* -------------------------- window boundaries -------------------------- *)
\* status values pushed as the fifth entry of a window boundary
Normal == 0
LeftShort == -1
RightShort == -2
BothShort == -3

\* faulty variant: the two one-sided status tests are taken in the other order
WindowBoundarySwapped(window_width, i_frame, num_frame) ==
  LET i  == ToWord(i_frame)
      n  == ToWord(num_frame)
      ll == ToInt(IF WordLess(window_width, WordAdd(i, ToWord(1)))
                  THEN WordSub(i, window_width) ELSE ToWord(0))
      rr == ToInt(IF WordLess(WordAdd(i, window_width), n)
                  THEN WordAdd(i, window_width) ELSE n)
      rest == IF window_width = WordSub(ToWord(rr), i) THEN RightShort
              ELSE IF window_width = WordSub(i, ToWord(ll)) THEN LeftShort
              ELSE BothShort
  IN  { << ll, ToInt(i), ToInt(i), rr, IF normal THEN Normal ELSE rest >> :
        normal \in NormalTest(window_width, ll, rr) }

\* the records the body of the frame loop can push for frame i_frame
WindowBoundary(window_width, i_frame, num_frame) ==
  LET i  == ToWord(i_frame)
      n  == ToWord(num_frame)
      ll == ToInt(IF WordLess(window_width, WordAdd(i, ToWord(1)))
                  THEN WordSub(i, window_width) ELSE ToWord(0))
      rr == ToInt(IF WordLess(WordAdd(i, window_width), n)
                  THEN WordAdd(i, window_width) ELSE n)
      rest == IF window_width = WordSub(ToWord(rr), i) THEN LeftShort
              ELSE IF window_width = WordSub(i, ToWord(ll)) THEN RightShort
              ELSE BothShort
  IN  { << ll, ToInt(i), ToInt(i), rr, IF normal THEN Normal ELSE rest >> :
        normal \in NormalTest(window_width, ll, rr) }

\* the rows the frame loop can build for frames 0 .. k-1
RECURSIVE BoundaryRows(_, _, _)
BoundaryRows(window_width, num_frame, k) ==
  IF k = 0 THEN { << >> }
  ELSE { Append(r, b) : r \in BoundaryRows(window_width, num_frame, k - 1),
                        b \in WindowBoundary(window_width, k - 1, num_frame) }

(* ------------------------------- inputs -------------------------------- *)
FeatureValues == { 1, 5 }

\* frames of dimensionality d: consecutive integers from a base value
Frames(d) == { [e \in 1..d |-> Flt(v + e - 1)] : v \in FeatureValues }

InputVectors ==
  UNION { [1..n -> Frames(d)] : n \in 0..MaxFrames, d \in 1..MaxElement }

\* what the caller's output vector holds before the call
OutputVectors == { << >>, << << Flt(7), Flt(7), Flt(7) >> >> }

\* arguments given to the constructor; a negative int converts to size_t
NumDimArguments == -1..MaxNumDim

\* std::vector<float>::max_size(): 2^61 - 1
VectorMaxSize == << Limb - 1, Limb - 1, Limb - 1, 8191 >>

Zeros(n) == [e \in 1..n |-> Flt(0)]

(* ------------------------------- state --------------------------------- *)
VARIABLES
  pc,                     \* position in constructor / calculate
  num_dim_arg,            \* the argument the constructor was called with
  m_num_dim,              \* StructuralChange::m_num_dim, a 64-bit word
  divergence,             \* the policy passed to calculate
  input_vector, rv,       \* calculate's arguments
  rv_entry, rv_writes,    \* rv at call entry; number of writes to rv
  num_frame, num_element,
  change_matrix, cumulative_vector, cumulative_matrix,
  tmp_window_boundaries, window_boundaries,
  i_frame, i_timescale, i_boundary,
  mean_div, count_valid,
  returned,               \* <<timescale, frame, value>> of each policy call
  js                      \* the Jensen-Shannon policy's locals

engineVars == << num_dim_arg, m_num_dim >>
callVars   == << divergence, input_vector, rv, rv_entry, rv_writes,
                 num_frame, num_element >>
cumVars    == << change_matrix, cumulative_vector, cumulative_matrix >>
tableVars  == << tmp_window_boundaries, window_boundaries >>
loopVars   == << i_frame, i_timescale, i_boundary >>
meanVars   == << mean_div, count_valid, returned >>
vars == << pc, engineVars, callVars, cumVars, tableVars, loopVars,
           meanVars, js >>

JSIdle == [pc |-> "idle", a |-> << >>, b |-> << >>, i_element |-> 0,
           a_sum |-> Flt(0), b_sum |-> Flt(0),
           a_valid |-> FALSE, b_valid |-> FALSE, result |-> Flt(0)]

CalcIdle ==
  /\ divergence = [kind |-> "Euclidean", value |-> 0]
  /\ input_vector = << >> /\ rv = << >> /\ rv_entry = << >> /\ rv_writes = 0
  /\ num_frame = 0 /\ num_element = 0
  /\ change_matrix = << >> /\ cumulative_vector = << >>
  /\ cumulative_matrix = << >>
  /\ tmp_window_boundaries = << >> /\ window_boundaries = << >>
  /\ i_frame = 0 /\ i_timescale = 0 /\ i_boundary = 0
  /\ mean_div = Flt(0) /\ count_valid = 0 /\ returned = {}

Init ==
  /\ pc = "new"
  /\ num_dim_arg = 0 /\ m_num_dim = ToWord(0)
  /\ CalcIdle
  /\ js = JSIdle

(* ----------------------------- constructor ----------------------------- *)
\* faulty variant: the parameter is held in 32 bits
ConstructTruncated(n) ==
  /\ pc = "new"
  /\ num_dim_arg' = n
  /\ m_num_dim' = << ToWord(n)[1], ToWord(n)[2], 0, 0 >>
  /\ pc' = "idle"
  /\ UNCHANGED << callVars, cumVars, tableVars, loopVars, meanVars, js >>

\* StructuralChange(size_t num_dim) : m_num_dim(num_dim)
Construct(n) ==
  /\ pc = "new"
  /\ num_dim_arg' = n
  /\ m_num_dim' = ToWord(n)
  /\ pc' = "idle"
  /\ UNCHANGED << callVars, cumVars, tableVars, loopVars, meanVars, js >>

(* ------------------------------ calculate ------------------------------ *)
\* the call: the arguments are bound, num_frame = input_vector.size()
Calculate(out, in, policy) ==
  /\ pc = "idle"
  /\ policy.kind = "Euclidean" => \A k \in 1..Len(in) : Len(in[k]) = 1
  /\ rv' = out /\ rv_entry' = out /\ rv_writes' = 0
  /\ input_vector' = in
  /\ divergence' = policy
  /\ num_frame' = Len(in)
  /\ pc' = "entry"
  /\ UNCHANGED << engineVars, num_element, cumVars, tableVars, loopVars,
                  meanVars, js >>

\* faulty variant: the early return forgets rv.clear()
EmptyInputKeepsOutput ==
  /\ pc = "entry"
  /\ num_frame = 0
  /\ rv_writes' = rv_writes + 1
  /\ pc' = "done"
  /\ UNCHANGED << engineVars, divergence, input_vector, rv, rv_entry,
                  num_frame, num_element, cumVars, tableVars, loopVars,
                  meanVars, js >>

\* if (num_frame == 0) { rv.clear(); return; }
EmptyInput ==
  /\ pc = "entry"
  /\ num_frame = 0
  /\ rv' = << >>
  /\ rv_writes' = rv_writes + 1
  /\ pc' = "done"
  /\ UNCHANGED << engineVars, divergence, input_vector, rv_entry, num_frame,
                  num_element, cumVars, tableVars, loopVars, meanVars, js >>

\* faulty variant: the output vector itself is sized before the loops
AllocateInOutput ==
  /\ pc = "entry"
  /\ num_frame # 0
  /\ num_element' = Len(input_vector[1])
  /\ change_matrix' = [k \in 1..num_frame |-> << >>]
  /\ rv' = [k \in 1..num_frame |-> << >>]
  /\ cumulative_vector' = Zeros(Len(input_vector[1]))
  /\ cumulative_matrix' = << Zeros(Len(input_vector[1])) >>
  /\ i_frame' = 0
  /\ pc' = "cumulative"
  /\ UNCHANGED << engineVars, divergence, input_vector, rv_entry,
                  rv_writes, num_frame, tableVars, i_timescale, i_boundary,
                  meanVars, js >>

\* the locals before the frame loop: change_matrix(num_frame),
\* cumulative_vector(num_element), the initial row of zeros
Allocate ==
  /\ pc = "entry"
  /\ num_frame # 0
  /\ num_element' = Len(input_vector[1])
  /\ change_matrix' = [k \in 1..num_frame |-> << >>]
  /\ cumulative_vector' = Zeros(Len(input_vector[1]))
  /\ cumulative_matrix' = << Zeros(Len(input_vector[1])) >>
  /\ i_frame' = 0
  /\ pc' = "cumulative"
  /\ UNCHANGED << engineVars, divergence, input_vector, rv, rv_entry,
                  rv_writes, num_frame, tableVars, i_timescale, i_boundary,
                  meanVars, js >>

\* faulty variant: the row is pushed before the frame is added to it
AccumulateFramePushFirst ==
  /\ pc = "cumulative"
  /\ i_frame < num_frame
  /\ LET sum == [e \in 1..num_element |->
                   FltAdd(cumulative_vector[e], input_vector[i_frame + 1][e])]
     IN  /\ cumulative_vector' = sum
         /\ cumulative_matrix' = Append(cumulative_matrix, cumulative_vector)
         /\ IF WordLess(VectorMaxSize, m_num_dim)
            THEN /\ pc' = "thrown"
                 /\ UNCHANGED << change_matrix, i_frame >>
            ELSE /\ change_matrix' =
                      [change_matrix EXCEPT ![i_frame + 1] =
                                               Zeros(ToInt(m_num_dim))]
                 /\ i_frame' = i_frame + 1
                 /\ pc' = "cumulative"
  /\ UNCHANGED << engineVars, callVars, tableVars, i_timescale, i_boundary,
                  meanVars, js >>

\* one iteration of the frame loop: accumulate, push the row, resize the
\* output frame to m_num_dim.  resize throws std::length_error beyond
\* max_size(); the exception leaves calculate.
AccumulateFrame ==
  /\ pc = "cumulative"
  /\ i_frame < num_frame
  /\ LET sum == [e \in 1..num_element |->
                   FltAdd(cumulative_vector[e], input_vector[i_frame + 1][e])]
     IN  /\ cumulative_vector' = sum
         /\ cumulative_matrix' = Append(cumulative_matrix, sum)
         /\ IF WordLess(VectorMaxSize, m_num_dim)
            THEN /\ pc' = "thrown"
                 /\ UNCHANGED << change_matrix, i_frame >>
            ELSE /\ change_matrix' =
                      [change_matrix EXCEPT ![i_frame + 1] =
                                               Zeros(ToInt(m_num_dim))]
                 /\ i_frame' = i_frame + 1
                 /\ pc' = "cumulative"
  /\ UNCHANGED << engineVars, callVars, tableVars, i_timescale, i_boundary,
                  meanVars, js >>

\* the frame loop ends; init_window_boundaries is entered
EnterBoundaries ==
  /\ pc = "cumulative"
  /\ i_frame = num_frame
  /\ tmp_window_boundaries' = << >>
  /\ i_timescale' = 0
  /\ pc' = "boundaries"
  /\ UNCHANGED << engineVars, callVars, cumVars, window_boundaries, i_frame,
                  i_boundary, meanVars, js >>


(* ----------------------- init_window_boundaries ------------------------ *)
\* one iteration of the timescale loop: the window width, then the row of
\* all frames
BoundaryTimescale ==
  /\ pc = "boundaries"
  /\ WordLess(ToWord(i_timescale), m_num_dim)
  /\ \E window_width \in ShiftLeft1U(i_timescale) :
       \E row \in BoundaryRows(window_width, num_frame, num_frame) :
         tmp_window_boundaries' = Append(tmp_window_boundaries, row)
  /\ i_timescale' = i_timescale + 1
  /\ UNCHANGED << pc, engineVars, callVars, cumVars, window_boundaries,
                  i_frame, i_boundary, meanVars, js >>

\* window_boundaries.swap(tmp_window_boundaries); back in calculate
BoundarySwap ==
  /\ pc = "boundaries"
  /\ ~ WordLess(ToWord(i_timescale), m_num_dim)
  /\ window_boundaries' = tmp_window_boundaries
  /\ tmp_window_boundaries' = window_boundaries
  /\ i_timescale' = 0
  /\ pc' = "timescale"
  /\ UNCHANGED << engineVars, callVars, cumVars, i_frame, i_boundary,
                  meanVars, js >>

(* ---------------------- calculate: timescale loop ---------------------- *)
LEFT == Flt(-1)
RIGHT == Flt(-2)

\* head of the timescale loop body: mean_div = 0; count_valid = 0
BeginTimescale ==
  /\ pc = "timescale"
  /\ WordLess(ToWord(i_timescale), m_num_dim)
  /\ mean_div' = Flt(0)
  /\ count_valid' = 0
  /\ i_boundary' = 0
  /\ pc' = "diverge"
  /\ UNCHANGED << engineVars, callVars, cumVars, tableVars, i_frame,
                  i_timescale, returned, js >>

\* the mean of the window [from, to) of the cumulative matrix, divided by
\* current_num_frames
WindowMean(from, to, current_num_frames) ==
  [e \in 1..num_element |->
     FltDivInt(FltSub(cumulative_matrix[to + 1][e],
                      cumulative_matrix[from + 1][e]), current_num_frames)]

\* the value the divergence branch stores for a normal frame
NormalValue(wb) ==
  LET current_num_frames == wb[2] - wb[1]
  IN  Divergence(divergence, WindowMean(wb[1], wb[2], current_num_frames),
                             WindowMean(wb[3], wb[4], current_num_frames))

\* one iteration of the loop over window_boundaries[i_timescale]
DivergeFrame ==
  /\ pc = "diverge"
  /\ i_boundary < Len(window_boundaries[i_timescale + 1])
  /\ LET wb == window_boundaries[i_timescale + 1][i_boundary + 1]
         store(v) == change_matrix' =
           [change_matrix EXCEPT ![i_boundary + 1][i_timescale + 1] = v]
     IN  IF wb[5] = 0
         THEN /\ store(NormalValue(wb))
              /\ mean_div' = FltAdd(mean_div, NormalValue(wb))
              /\ count_valid' = count_valid + 1
              /\ returned' = returned \cup
                   { << i_timescale, i_boundary, NormalValue(wb) >> }
         ELSE /\ IF wb[5] = -1 THEN store(LEFT)
                 ELSE IF wb[5] = -2 THEN store(RIGHT)
                 ELSE store(Flt(0))
              /\ UNCHANGED << mean_div, count_valid, returned >>
  /\ i_boundary' = i_boundary + 1
  /\ UNCHANGED << pc, engineVars, callVars, cumulative_vector,
                  cumulative_matrix, tableVars, i_frame, i_timescale, js >>

\* faulty variant: the mean is taken over all frames of the timescale
CloseDivergenceOverAllFrames ==
  /\ pc = "diverge"
  /\ i_boundary = Len(window_boundaries[i_timescale + 1])
  /\ mean_div' = IF count_valid > 0 THEN FltDivInt(mean_div, num_frame)
                 ELSE mean_div
  /\ i_frame' = 0
  /\ pc' = "substitute"
  /\ UNCHANGED << engineVars, callVars, cumVars, tableVars, i_timescale,
                  i_boundary, count_valid, returned, js >>

\* if (count_valid > 0) mean_div /= count_valid;
CloseDivergence ==
  /\ pc = "diverge"
  /\ i_boundary = Len(window_boundaries[i_timescale + 1])
  /\ mean_div' = IF count_valid > 0 THEN FltDivInt(mean_div, count_valid)
                 ELSE mean_div
  /\ i_frame' = 0
  /\ pc' = "substitute"
  /\ UNCHANGED << engineVars, callVars, cumVars, tableVars, i_timescale,
                  i_boundary, count_valid, returned, js >>

\* faulty variant: the factors of the two sentinels are exchanged
SubstitutedSwapped(v, mean) ==
  IF FltEq(v, RIGHT) THEN FltMul(Flt(-1), mean)
  ELSE IF FltEq(v, LEFT) THEN FltMul(Flt(3), mean)
  ELSE v

\* what the substitution loop leaves in a cell holding v
Substituted(v, mean) ==
  IF FltEq(v, RIGHT) THEN FltMul(Flt(3), mean)
  ELSE IF FltEq(v, LEFT) THEN FltMul(Flt(-1), mean)
  ELSE v

\* one iteration of the loop setting artificial values
SubstituteFrame ==
  /\ pc = "substitute"
  /\ i_frame < num_frame
  /\ change_matrix' =
       [change_matrix EXCEPT ![i_frame + 1][i_timescale + 1] =
          Substituted(change_matrix[i_frame + 1][i_timescale + 1], mean_div)]
  /\ i_frame' = i_frame + 1
  /\ UNCHANGED << pc, engineVars, callVars, cumulative_vector,
                  cumulative_matrix, tableVars, i_timescale, i_boundary,
                  meanVars, js >>

\* ++i_timescale
NextTimescale ==
  /\ pc = "substitute"
  /\ i_frame = num_frame
  /\ i_timescale' = i_timescale + 1
  /\ pc' = "timescale"
  /\ UNCHANGED << engineVars, callVars, cumVars, tableVars, i_frame,
                  i_boundary, meanVars, js >>

\* rv.swap(change_matrix)
Finish ==
  /\ pc = "timescale"
  /\ ~ WordLess(ToWord(i_timescale), m_num_dim)
  /\ rv' = change_matrix
  /\ change_matrix' = rv
  /\ rv_writes' = rv_writes + 1
  /\ pc' = "done"
  /\ UNCHANGED << engineVars, divergence, input_vector, rv_entry, num_frame,
                  num_element, cumulative_vector, cumulative_matrix,
                  tableVars, loopVars, meanVars, js >>

Next ==
  \/ \E n \in NumDimArguments : Construct(n)
  \/ \E out \in OutputVectors, in \in InputVectors, policy \in Policies :
       Calculate(out, in, policy)
  \/ EmptyInput
  \/ Allocate
  \/ AccumulateFrame
  \/ EnterBoundaries
  \/ BoundaryTimescale
  \/ BoundarySwap
  \/ BeginTimescale
  \/ DivergeFrame
  \/ CloseDivergence
  \/ SubstituteFrame
  \/ NextTimescale
  \/ Finish

Spec == Init /\ [][Next]_vars


(* ------------------- init_window_boundaries, alone --------------------- *)
\* init_window_boundaries(window_boundaries, num_frame) on an engine of
\* m_num_dim timescales; calculate calls it with num_frame >= 1
InitBoundaries ==
  /\ pc = "boundaries"
  /\ num_dim_arg \in 0..MaxShiftDim
  /\ m_num_dim = ToWord(num_dim_arg)
  /\ divergence = [kind |-> "Euclidean", value |-> 0]
  /\ input_vector = << >> /\ rv = << >> /\ rv_entry = << >> /\ rv_writes = 0
  /\ num_frame \in 1..MaxFrames
  /\ num_element = 0
  /\ change_matrix = << >> /\ cumulative_vector = << >>
  /\ cumulative_matrix = << >>
  /\ tmp_window_boundaries = << >> /\ window_boundaries = << >>
  /\ i_frame = 0 /\ i_timescale = 0 /\ i_boundary = 0
  /\ mean_div = Flt(0) /\ count_valid = 0 /\ returned = {}
  /\ js = JSIdle

NextBoundaries == BoundaryTimescale \/ BoundarySwap

SpecBoundaries == InitBoundaries /\ [][NextBoundaries]_vars

(* ------------------- JensonShannonDivergencePolicy --------------------- *)
JSValues == { -1, 0, 1 }

JSVectors(n) == [1..n -> { Flt(v) : v \in JSValues }]

\* operator()(a, b) entered with two vectors of num_element elements
InitJS ==
  /\ pc = "policy"
  /\ num_dim_arg = 0 /\ m_num_dim = ToWord(0)
  /\ CalcIdle
  /\ \E n \in 0..MaxJSLen : \E a \in JSVectors(n), b \in JSVectors(n) :
       js = [JSIdle EXCEPT !.pc = "loop", !.a = a, !.b = b]

\* faulty variant: a negative element breaks the loop but leaves the flag
JSElementKeepsValid ==
  /\ js.pc = "loop"
  /\ js.i_element < Len(js.a)
  /\ LET x == js.a[js.i_element + 1]
         y == js.b[js.i_element + 1]
         a_pos == IF x[1] > 0 THEN TRUE ELSE js.a_valid
         b_pos == IF y[1] > 0 THEN TRUE ELSE js.b_valid
         summed == [js EXCEPT !.a_sum = FltAdd(js.a_sum, x),
                              !.b_sum = FltAdd(js.b_sum, y)]
     IN  js' = IF x[1] < 0 \/ y[1] < 0
               THEN [summed EXCEPT !.a_valid = a_pos, !.b_valid = b_pos,
                                   !.pc = "test"]
               ELSE [summed EXCEPT !.a_valid = a_pos, !.b_valid = b_pos,
                                   !.i_element = js.i_element + 1]
  /\ UNCHANGED << pc, engineVars, callVars, cumVars, tableVars, loopVars,
                  meanVars >>

\* one iteration of the loop getting the sums
JSElement ==
  /\ js.pc = "loop"
  /\ js.i_element < Len(js.a)
  /\ LET x == js.a[js.i_element + 1]
         y == js.b[js.i_element + 1]
         a_pos == IF x[1] > 0 THEN TRUE ELSE js.a_valid
         b_pos == IF y[1] > 0 THEN TRUE ELSE js.b_valid
         summed == [js EXCEPT !.a_sum = FltAdd(js.a_sum, x),
                              !.b_sum = FltAdd(js.b_sum, y)]
     IN  js' = IF x[1] < 0
               THEN [summed EXCEPT !.a_valid = FALSE, !.b_valid = b_pos,
                                   !.pc = "test"]
               ELSE IF y[1] < 0
               THEN [summed EXCEPT !.a_valid = a_pos, !.b_valid = FALSE,
                                   !.pc = "test"]
               ELSE [summed EXCEPT !.a_valid = a_pos, !.b_valid = b_pos,
                                   !.i_element = js.i_element + 1]
  /\ UNCHANGED << pc, engineVars, callVars, cumVars, tableVars, loopVars,
                  meanVars >>

\* the loop ends without a break
JSLoopEnd ==
  /\ js.pc = "loop"
  /\ js.i_element = Len(js.a)
  /\ js' = [js EXCEPT !.pc = "test"]
  /\ UNCHANGED << pc, engineVars, callVars, cumVars, tableVars, loopVars,
                  meanVars >>

\* if (a_valid && b_valid): a and b are normalised, m is their mean; the
\* result 0.5 * sum of p * log(p / m) is kept as its list of <<p, p / m>>
JSTerms(p, q) ==
  LET m == [e \in 1..Len(p) |-> FltMul(<< 1, 2 >>, FltAdd(p[e], q[e]))]
      term(v, e) == IF v[e][1] > 0
                    THEN << << v[e], FltMul(v[e], << m[e][2], m[e][1] >>) >> >>
                    ELSE << >>
      RECURSIVE upto(_)
      upto(k) == IF k = 0 THEN << >>
                 ELSE upto(k - 1) \o term(p, k) \o term(q, k)
  IN  upto(Len(p))

JSCompute ==
  /\ js.pc = "test"
  /\ js.a_valid /\ js.b_valid
  /\ LET p == [e \in 1..Len(js.a) |->
                 FltMul(js.a[e], << js.a_sum[2], js.a_sum[1] >>)]
         q == [e \in 1..Len(js.b) |->
                 FltMul(js.b[e], << js.b_sum[2], js.b_sum[1] >>)]
     IN  js' = [a |-> p, b |-> q, i_element |-> Len(js.a),
                a_sum |-> js.a_sum, b_sum |-> js.b_sum,
                a_valid |-> TRUE, b_valid |-> TRUE,
                result |-> JSTerms(p, q), pc |-> "computed"]
  /\ UNCHANGED << pc, engineVars, callVars, cumVars, tableVars, loopVars,
                  meanVars >>

\* else return 0.0
JSFallback ==
  /\ js.pc = "test"
  /\ ~ (js.a_valid /\ js.b_valid)
  /\ js' = [js EXCEPT !.result = Flt(0), !.pc = "fallback"]
  /\ UNCHANGED << pc, engineVars, callVars, cumVars, tableVars, loopVars,
                  meanVars >>

NextJS == JSElement \/ JSLoopEnd \/ JSCompute \/ JSFallback

SpecJS == InitJS /\ [][NextJS]_vars


(* ============================ properties =============================== *)
Max(a, b) == IF a < b THEN b ELSE a
Min(a, b) == IF a < b THEN a ELSE b

\* the status calculate reads for frame i of timescale t
Status(t, i) == window_boundaries[t + 1][i + 1][5]

\* the value the policy returned for frame i of timescale t
ReturnedAt(t, i) == (CHOOSE r \in returned : r[1] = t /\ r[2] = i)[3]

\* the frames of timescale t for which the policy was called
ReturnedFrames(t) == { r[2] : r \in { q \in returned : q[1] = t } }

NormalFrames(t) == { i \in 0..(num_frame - 1) : Status(t, i) = Normal }

RECURSIVE SumReturned(_, _)
SumReturned(t, k) ==
  IF k = 0 THEN Flt(0)
  ELSE IF (k - 1) \in ReturnedFrames(t)
       THEN FltAdd(SumReturned(t, k - 1), ReturnedAt(t, k - 1))
       ELSE SumReturned(t, k - 1)

\* average of the divergence values of the normal frames of timescale t
MeanReturned(t) ==
  IF NormalFrames(t) = {} THEN Flt(0)
  ELSE FltDivInt(SumReturned(t, num_frame), Cardinality(NormalFrames(t)))

\* C1: after calculate returns, rv has one frame per input frame and every
\* frame has as many values as there are timescales, whatever rv held at
\* entry; empty input gives an empty rv.
C1_OutputShape ==
  pc = "done" =>
    /\ Len(rv) = Len(input_vector)
    /\ \A k \in 1..Len(rv) : Len(rv[k]) = num_dim_arg

C1_Witness ==
  /\ pc = "done"
  /\ Len(input_vector) = 3 /\ num_dim_arg = 2
  /\ rv_entry # << >> /\ Len(rv) = 3

\* C2: after calculate, at every timescale the value of each left-truncated
\* frame is -1 * meanDiv and of each right-truncated frame 3 * meanDiv,
\* meanDiv being the average of the divergences of exactly the normal
\* frames of that timescale, 0 when there is none.
C2_EdgeSubstitution ==
  (pc = "done" /\ num_frame > 0) =>
    \A t \in 0..(num_dim_arg - 1) :
      /\ ReturnedFrames(t) = NormalFrames(t)
      /\ \A i \in 0..(num_frame - 1) :
           /\ Status(t, i) = LeftShort =>
                rv[i + 1][t + 1] = FltMul(Flt(-1), MeanReturned(t))
           /\ Status(t, i) = RightShort =>
                rv[i + 1][t + 1] = FltMul(Flt(3), MeanReturned(t))

C2_Witness ==
  /\ pc = "done" /\ num_frame > 0
  /\ \E t \in 0..(num_dim_arg - 1) :
       /\ NormalFrames(t) # {}
       /\ MeanReturned(t) # Flt(0)
       /\ \E i, j \in 0..(num_frame - 1) :
            Status(t, i) = LeftShort /\ Status(t, j) = RightShort

\* the concrete scenario: frames [1, 1, 5, 5], one timescale, Euclidean
ScenarioDone ==
  /\ pc = "done"
  /\ input_vector = << << Flt(1) >>, << Flt(1) >>, << Flt(5) >>, << Flt(5) >> >>
  /\ num_dim_arg = 1
  /\ divergence.kind = "Euclidean"

\* C3 as stated: in the scenario frames 1 and 2 are normal with divergence
\* 4, frames 0 and 3 are edge frames, meanDiv is 4 and the output is
\* [12, 4, 4, -4].
C3_ScenarioAsStated ==
  ScenarioDone =>
    /\ NormalFrames(0) = { 1, 2 }
    /\ ReturnedAt(0, 1) = Flt(4) /\ ReturnedAt(0, 2) = Flt(4)
    /\ mean_div = Flt(4)
    /\ rv = << << Flt(12) >>, << Flt(4) >>, << Flt(4) >>, << Flt(-4) >> >>

\* C3 amended: in the scenario frame 0 is left-truncated, frames 1, 2 and 3
\* are normal with divergences 0, 4 and 0, meanDiv is 4/3 and the output
\* is [-4/3, 0, 4, 0].
C3_Scenario ==
  ScenarioDone =>
    /\ Status(0, 0) = LeftShort
    /\ NormalFrames(0) = { 1, 2, 3 }
    /\ ReturnedAt(0, 1) = Flt(0) /\ ReturnedAt(0, 2) = Flt(4)
    /\ ReturnedAt(0, 3) = Flt(0)
    /\ mean_div = << 4, 3 >>
    /\ rv = << << << -4, 3 >> >>, << Flt(0) >>, << Flt(4) >>, << Flt(0) >> >>

C3_Witness == ScenarioDone /\ rv_writes = 1

(* ---- window boundaries ---- *)
\* the rows init_window_boundaries has built so far, then the swapped table
Rows == IF pc = "boundaries" THEN tmp_window_boundaries ELSE window_boundaries

\* width of int in bits
IntBits == 32

\* 2^t and 2 * 2^t fit an int
FitsInt(t) == t + 1 < IntBits - 1

\* C4: for every timescale whose width w = 2^t and 2w fit the integer
\* types and every frame i, the stored record is leftStart = max(0, i - w),
\* leftEnd = rightStart = i, rightEnd = min(N, i + w), ordered
\* 0 <= leftStart <= i <= rightEnd <= N; status is normal iff both sizes
\* are w, left-truncated iff only the right size is w, right-truncated iff
\* only the left size is w, both-truncated iff neither is, which needs
\* N < 2w.
C4_BoundaryRecords ==
  \A t \in 0..(Len(Rows) - 1) :
    FitsInt(t) =>
      /\ Len(Rows[t + 1]) = num_frame
      /\ \A i \in 0..(num_frame - 1) :
           LET rec == Rows[t + 1][i + 1]
               w == 2 ^ t
               leftSize == rec[2] - rec[1]
               rightSize == rec[4] - rec[3]
           IN  /\ rec[1] = Max(0, i - w)
               /\ rec[2] = i /\ rec[3] = i
               /\ rec[4] = Min(num_frame, i + w)
               /\ 0 <= rec[1] /\ rec[1] <= i /\ i <= rec[4]
               /\ rec[4] <= num_frame
               /\ rec[5] = Normal <=> (leftSize = w /\ rightSize = w)
               /\ rec[5] = LeftShort <=> (rightSize = w /\ leftSize < w)
               /\ rec[5] = RightShort <=> (leftSize = w /\ rightSize < w)
               /\ rec[5] = BothShort <=> (leftSize < w /\ rightSize < w)
               /\ rec[5] = BothShort => num_frame < 2 * w

HasStatus(row, st) == \E k \in 1..Len(row) : row[k][5] = st

C4_Witness ==
  /\ pc = "timescale"
  /\ Len(window_boundaries) >= 3
  /\ HasStatus(window_boundaries[2], Normal)
  /\ HasStatus(window_boundaries[2], LeftShort)
  /\ HasStatus(window_boundaries[2], RightShort)
  /\ HasStatus(window_boundaries[3], BothShort)

\* C10 as stated: for every timescale t the constructor's count admits, the
\* half-width used is exactly 2^t and the normal test compares with
\* 2 * 2^t; for t >= 31 no frame of a sequence shorter than 2^t frames is
\* normal.
C10_ExactWidth ==
  \A t \in 0..(Len(Rows) - 1) :
    \A i \in 0..(num_frame - 1) :
      LET rec == Rows[t + 1][i + 1]
      IN  IF t < IntBits - 1
          THEN /\ rec[1] = Max(0, i - 2 ^ t)
               /\ rec[4] = Min(num_frame, i + 2 ^ t)
               /\ rec[5] = Normal <=>
                    (rec[2] - rec[1] = 2 ^ t /\ rec[4] - rec[3] = 2 ^ t)
          ELSE /\ rec[1] = 0
               /\ rec[4] = num_frame
               /\ rec[5] # Normal

(* ---- cumulative matrix ---- *)
\* element e summed over the input frames [j, k)
RECURSIVE FrameSum(_, _, _)
FrameSum(j, k, e) ==
  IF k <= j THEN 0 ELSE FrameSum(j, k - 1, e) + input_vector[k][e][1]

\* C5: for N >= 1 frames of one dimensionality, the cumulative matrix has
\* N + 1 rows, row 0 is all zeros, and row k minus row j is the elementwise
\* sum of frames [j, k), for all 0 <= j <= k <= N.
C5_CumulativeMatrix ==
  (pc \in { "boundaries", "timescale", "diverge", "substitute", "done" }
     /\ Len(input_vector) >= 1) =>
    /\ Len(cumulative_matrix) = Len(input_vector) + 1
    /\ cumulative_matrix[1] = [e \in 1..Len(input_vector[1]) |-> Flt(0)]
    /\ \A j \in 0..Len(input_vector) : \A k \in j..Len(input_vector) :
         /\ Len(cumulative_matrix[k + 1]) = Len(input_vector[1])
         /\ \A e \in 1..Len(input_vector[1]) :
              FltSub(cumulative_matrix[k + 1][e], cumulative_matrix[j + 1][e])
                = Flt(FrameSum(j, k, e))

C5_Witness ==
  /\ pc = "boundaries"
  /\ Len(input_vector) = 3 /\ Len(input_vector[1]) = 2
  /\ input_vector[1] # input_vector[2]
  /\ Len(cumulative_matrix) = 4

(* ---- frame conditions of calculate ---- *)
\* C6: while calculate runs rv keeps the value it had at entry; only the
\* final step (the swap, or the clear for empty input) changes it, exactly
\* once; the input sequence is never modified.
C6_NoPartialResults ==
  [][ (pc \notin { "new", "idle" }) =>
        /\ input_vector' = input_vector
        /\ (pc' # "done" \/ pc = "done") => (rv' = rv /\ rv' = rv_entry)
        /\ (pc' = "done" /\ pc # "done") =>
             (rv = rv_entry /\ rv_writes = 0 /\ rv_writes' = 1)
    ]_vars

C6_Witness ==
  /\ pc = "substitute" /\ i_frame = num_frame /\ i_timescale = 1
  /\ rv = rv_entry /\ rv # << >>
  /\ change_matrix # rv

(* ---- construction ---- *)
\* C7 as stated: an invalid (negative) timescale count is rejected at
\* construction; no engine is produced for it and no calculate run starts
\* with it.
C7_RejectedAtConstruction ==
  pc # "new" => num_dim_arg >= 0

\* C7 amended: the constructor validates nothing.  Every argument yields an
\* engine holding the argument converted to size_t (a negative n as
\* 2^64 + n), and calculate runs start with it: on empty input the run
\* returns an empty rv, on non-empty input it fails by an exception inside
\* the cumulative pass, after the first row was accumulated, rv untouched.
C7_NoValidation ==
  /\ pc \notin { "new", "policy" } =>
       IF num_dim_arg >= 0
       THEN m_num_dim = << num_dim_arg, 0, 0, 0 >>
       ELSE WordAdd(m_num_dim, << -num_dim_arg, 0, 0, 0 >>) = << 0, 0, 0, 0 >>
  /\ pc = "thrown" =>
       /\ num_dim_arg < 0
       /\ rv = rv_entry
       /\ Len(cumulative_matrix) = 2
  /\ (pc = "done" /\ num_dim_arg < 0) => (num_frame = 0 /\ rv = << >>)

C7_Witness ==
  /\ pc = "thrown"
  /\ num_dim_arg = -1
  /\ m_num_dim = << 65535, 65535, 65535, 65535 >>

(* ---- Jensen-Shannon ---- *)
\* some element of v is negative / no element of v is positive
AnyNegative(v) == \E e \in 1..Len(v) : v[e][1] < 0
NonePositive(v) == \A e \in 1..Len(v) : v[e][1] <= 0

Degenerate(a, b) ==
  AnyNegative(a) \/ AnyNegative(b) \/ NonePositive(a) \/ NonePositive(b)

\* C8: the Jensen-Shannon policy returns exactly 0.0 by its fallback
\* branch, its vectors not normalised, whenever an element of either vector
\* is negative, wherever it stands, or a vector has no positive element; it
\* takes the computing branch only when all elements are >= 0 and each
\* vector has an element > 0.
C8_JSFallback ==
  [][ js.pc = "test" =>
        /\ Degenerate(js.a, js.b) =>
             /\ js'.pc = "fallback"
             /\ js'.result = Flt(0)
             /\ js'.a = js.a /\ js'.b = js.b
        /\ js'.pc = "computed" <=> ~ Degenerate(js.a, js.b)
    ]_vars

C8_Witness ==
  /\ js.pc = "fallback"
  /\ js.a = << Flt(1), Flt(1), Flt(-1) >>
  /\ js.b = << Flt(1), Flt(1), Flt(1) >>
  /\ js.result = Flt(0)

(* ---- substitution pass ---- *)
\* C9 as stated: for any policy, after calculate the value at every normal
\* frame of a timescale is the value the policy returned for it, and the
\* value at every both-truncated frame is 0.0.
C9_OnlyEdgeFramesRewritten ==
  (pc = "done" /\ num_frame > 0) =>
    \A t \in 0..(num_dim_arg - 1) : \A i \in 0..(num_frame - 1) :
      /\ Status(t, i) = Normal => rv[i + 1][t + 1] = ReturnedAt(t, i)
      /\ Status(t, i) = BothShort => rv[i + 1][t + 1] = Flt(0)

====
